---- MODULE Spec2Model ----
(***************************************************************************)
(* journey-interpreter: lib/journeyinterpreter.js as a state machine.      *)
(*                                                                         *)
(* The state is the JourneyInterpreter instance (the three registry Maps   *)
(* and the configuration the constructor derives from its options), the    *)
(* wall clock read through Date.now(), the number of random tokens drawn   *)
(* from crypto.randomBytes, the 'session' events emitted and the data      *)
(* handed to fs.appendFile by the last call of handleRaddec, and the       *)
(* locals that call ended with.                                            *)
(*                                                                         *)
(* A JavaScript Map is a function whose DOMAIN is its key set.  A plain    *)
(* object used as a dictionary (session.devices) is a sequence of          *)
(* <<key, value>> entries in insertion order, which is the order for..in   *)
(* walks its (non-integer) string keys in.                                 *)
(***************************************************************************)
EXTENDS Integers, Sequences, FiniteSets, TLC

VARIABLES
  options,                          \* the object given to the constructor
  activeSessions,                   \* Map: sessionId -> session
  activeTransmitters,               \* Map: raddec.signature -> sessionId
  activeInstances,                  \* Map: instanceId -> sessionId
  sessionIdentifierLength,
  rssiThreshold,
  reinitiationHoldoffMilliseconds,
  advlibFilters,
  whitelistedDeviceIds,
  isSessionLoggingEnabled,
  now,                              \* Date.now()
  entropy,                          \* random tokens drawn so far
  records,                          \* records handled so far
  emitted,                          \* 'session' events of the last handleRaddec
  appended,                         \* fs.appendFile calls of the last handleRaddec
  last,                             \* the locals the last handleRaddec ended with
  lastAbove,                        \* per signature: its last above-threshold emission
  emittedAs                         \* per active sessionId: the instanceId of its first emission

config == <<sessionIdentifierLength, rssiThreshold,
            reinitiationHoldoffMilliseconds, advlibFilters,
            whitelistedDeviceIds, isSessionLoggingEnabled>>
registry == <<activeSessions, activeTransmitters, activeInstances>>
vars == <<options, registry, config, now, entropy, records, emitted, appended,
          last, lastAbove, emittedAs>>

----------------------------------------------------------------------------
(* Bounds of the model *)

\* the clock stops advancing at MaxTime
MaxTime == 3
\* at most MaxRecords records are delivered
MaxRecords == 4

----------------------------------------------------------------------------
(* Constants of the program *)

DEFAULT_RSSI_THRESHOLD == -50
DEFAULT_REINITIATION_HOLDOFF_MILLISECONDS == 10000
DEFAULT_SESSION_IDENTIFIER_LENGTH == 8

\* JavaScript's null, for the string-valued locals sessionId and instanceId
null == "null"

----------------------------------------------------------------------------
(* JavaScript values and containers *)

\* an object with no own properties
EmptyObject == << >>

\* JavaScript values with their kind; typeof of null and of an array is
\* "object"
Str(s) == [kind |-> "string", v |-> s]
Num(n) == [kind |-> "number", v |-> n]
Arr(a) == [kind |-> "array", v |-> a]
Bool(b) == [kind |-> "boolean", v |-> b]
Obj(entries) == [kind |-> "object", v |-> entries]
Null == [kind |-> "null", v |-> << >>]
TypeOf(x) == IF x.kind \in {"null", "array", "object"} THEN "object" ELSE x.kind
IsArray(x) == x.kind = "array"

\* a === b: primitives by value, objects by reference (two arrays built in
\* different places are never the same object)
StrictEquals(a, b) == /\ a.kind = b.kind
                      /\ \/ a.kind = "null"
                         \/ a.kind \in {"string", "number"} /\ a.v = b.v

\* Array.prototype.includes
Includes(arr, x) == \E i \in 1..Len(arr) : arr[i] = x

\* the truthiness that ! and || test
Truthy(x) == CASE x.kind = "number" -> x.v # 0
               [] x.kind = "string" -> x.v # ""
               [] x.kind = "null" -> FALSE
               [] x.kind = "boolean" -> x.v
               [] OTHER -> TRUE

\* opts.name || fallback
OrDefault(opts, name, fallback) ==
  IF name \in DOMAIN opts /\ Truthy(opts[name]) THEN opts[name] ELSE fallback

\* Map.prototype.set and Map.prototype.delete
MapSet(m, k, v) == [x \in DOMAIN m \cup {k} |-> IF x = k THEN v ELSE m[x]]
MapDelete(m, k) == [x \in DOMAIN m \ {k} |-> m[x]]

\* obj[key] = value on a plain object: an existing key keeps its place in the
\* enumeration order, a new key goes last
Keys(obj) == {obj[i][1] : i \in 1..Len(obj)}
ObjSet(obj, k, v) ==
  IF k \in Keys(obj)
  THEN [i \in 1..Len(obj) |-> IF obj[i][1] = k THEN <<k, v>> ELSE obj[i]]
  ELSE Append(obj, <<k, v>>)
ObjGet(obj, k) == LET i == CHOOSE j \in 1..Len(obj) : obj[j][1] = k IN obj[i][2]

----------------------------------------------------------------------------
(* crypto.randomBytes(n).toString('hex') *)

HexDigit == <<"0", "1", "2", "3", "4", "5", "6", "7",
              "8", "9", "a", "b", "c", "d", "e", "f">>
HexByte(b) == HexDigit[(b \div 16) + 1] \o HexDigit[(b % 16) + 1]

RECURSIVE toHex(_)
toHex(bytes) == IF bytes = << >> THEN ""
                ELSE HexByte(Head(bytes)) \o toHex(Tail(bytes))

DEFAULT_ADVLIB_FILTERS == Null
DEFAULT_WHITELISTED_DEVICE_IDS == Arr(<< >>)
DEFAULT_IS_SESSION_LOGGING_ENABLED == Bool(FALSE)

\* the k-th draw of n random bytes: draws are pairwise different (a collision
\* of two tokens is not modelled), which the low byte carries
randomBytes(n, k) == [i \in 1..n |-> IF i = n THEN k % 256 ELSE 0]

----------------------------------------------------------------------------
(* The records delivered by barnowl and what advlib makes of their packets *)

Signatures == {"sigA", "sigB"}
RssiValues == {-60, -50}
Payloads == {"plain", "beaconW", "beaconX"}

\* raddec.rssiSignature: the receivers, strongest first
RssiSignatureOf(rssi) ==
  << [receiverId |-> "r1", rssi |-> rssi, numberOfDecodings |-> 1] >>

\* raddec.initialTime of a record delivered at time t
InitialTimes(t) == {t}

\* the payloads and the records the filter is exercised with
FilterPayloads == {"garbage", "plain", "beaconW", "beaconX", "beaconXW",
                   "tagged", "taggedX", "named", "service"}
FilterRaddecs(t) == [signature : {"sigA"},
                     rssiSignature : {RssiSignatureOf(-50)},
                     packets : FilterPayloads,
                     initialTime : InitialTimes(t)]

\* the payloads and the records the defaults are exercised with
DefaultsPayloads == {"garbage", "plain", "beaconW"}
DefaultsRaddecs(t) == [signature : {"sigA"},
                       rssiSignature : {RssiSignatureOf(v) : v \in RssiValues},
                       packets : DefaultsPayloads,
                       initialTime : InitialTimes(t)]

\* the payloads and the records the whitelist is exercised with
WhitelistPayloads == {"garbage", "plain", "beaconW", "beaconX", "beaconXW"}
WhitelistRaddecs(t) == [signature : Signatures,
                        rssiSignature : {RssiSignatureOf(-50)},
                        packets : WhitelistPayloads,
                        initialTime : InitialTimes(t)]

\* the records the session log is exercised with: one to four receivers, the
\* strongest at or under the threshold
Receivers ==
  <<[receiverId |-> "r1", rssi |-> -50, numberOfDecodings |-> 1],
    [receiverId |-> "r2", rssi |-> -61, numberOfDecodings |-> 12],
    [receiverId |-> "r3", rssi |-> -72, numberOfDecodings |-> 3],
    [receiverId |-> "r4", rssi |-> -83, numberOfDecodings |-> 4]>>
LogRssiSignatures ==
  {SubSeq(Receivers, 1, n) : n \in 1..Len(Receivers)}
    \cup {SubSeq(Receivers, 2, 3)}
LogRaddecs(t) == [signature : {"sigA"},
                  rssiSignature : LogRssiSignatures,
                  packets : {"plain", "beaconW"},
                  initialTime : InitialTimes(t)]

\* the records a threshold and a holdoff of 0 are exercised with
ZeroRssiValues == {-60, -50, 0}
ZeroRaddecs(t) == [signature : {"sigA"},
                   rssiSignature : {RssiSignatureOf(v) : v \in ZeroRssiValues},
                   packets : {"plain", "beaconW"},
                   initialTime : InitialTimes(t)]

\* the records that can arrive at time t
Raddecs(t) == [signature : Signatures,
               rssiSignature : {RssiSignatureOf(v) : v \in RssiValues},
               packets : Payloads,
               initialTime : InitialTimes(t)]

\* advlib.process(raddec.packets, PROCESSORS): throws on a payload it cannot
\* decode, else the object of the properties it decoded
advlibThrows(packets) == packets = "garbage"
advlibProcess(packets) ==
  CASE packets = "beaconW"  -> [deviceIds |-> Arr(<<"w1">>)]
    [] packets = "beaconX"  -> [deviceIds |-> Arr(<<"x1">>)]
    [] packets = "beaconXW" -> [deviceIds |-> Arr(<<"x1", "w1">>)]
    [] packets = "tagged"   -> [name |-> Str("tag"), uuids |-> Arr(<<"feaa">>)]
    [] packets = "taggedX"  -> [name |-> Str("tag"), deviceIds |-> Arr(<<"x1">>)]
    [] packets = "named"    -> [name |-> Str("other"), txPower |-> Num(-4)]
    [] packets = "service"  -> [uuids |-> Arr(<<"180f", "fe9a">>)]
    [] OTHER                -> EmptyObject

----------------------------------------------------------------------------
(* lookupWhitelist *)

\* mutant: the whitelist is walked instead of the decoded deviceIds
RECURSIVE firstWhitelisted_ByWhitelistOrder(_, _)
firstWhitelisted_ByWhitelistOrder(deviceIds, whitelist) ==
  IF whitelist = << >> THEN null
  ELSE IF Includes(deviceIds, Head(whitelist)) THEN Head(whitelist)
  ELSE firstWhitelisted_ByWhitelistOrder(deviceIds, Tail(whitelist))

RECURSIVE firstWhitelisted(_, _)
firstWhitelisted(deviceIds, whitelist) ==
  IF deviceIds = << >> THEN null
  ELSE IF Includes(whitelist, Head(deviceIds)) THEN Head(deviceIds)
  ELSE firstWhitelisted(Tail(deviceIds), whitelist)

lookupWhitelist(processedPackets, whitelist) ==
  IF "deviceIds" \in DOMAIN processedPackets /\ IsArray(whitelist)
  THEN firstWhitelisted(processedPackets["deviceIds"].v, whitelist.v)
  ELSE null

----------------------------------------------------------------------------
(* isPacketsFiltered *)

\* the body of the for..in loop for one filter property: TRUE when it returns
\* true, FALSE when the loop goes on to the next property
filterPropertyMatches(processedPackets, filterProperty, filter) ==
  /\ filterProperty \in DOMAIN processedPackets
  /\ TypeOf(processedPackets[filterProperty]) = TypeOf(filter)
  /\ IF filterProperty \in {"uuids", "deviceIds"}
     THEN \E i \in 1..Len(filter.v) :
            Includes(processedPackets[filterProperty].v, filter.v[i])
     ELSE StrictEquals(filter, processedPackets[filterProperty])

\* mutant: the loop demands every configured property to match (AND)
RECURSIVE filterLoop_And(_, _)
filterLoop_And(processedPackets, entries) ==
  IF entries = << >> THEN TRUE
  ELSE /\ filterPropertyMatches(processedPackets, Head(entries)[1],
                                Head(entries)[2])
       /\ filterLoop_And(processedPackets, Tail(entries))

RECURSIVE filterLoop(_, _)
filterLoop(processedPackets, entries) ==
  IF entries = << >> THEN FALSE
  ELSE IF filterPropertyMatches(processedPackets, Head(entries)[1],
                                Head(entries)[2])
       THEN TRUE
       ELSE filterLoop(processedPackets, Tail(entries))

isPacketsFiltered(processedPackets, filters) ==
  IF ~Truthy(filters) THEN TRUE
  ELSE filterLoop(processedPackets, filters.v)

----------------------------------------------------------------------------
(* The instance as the functions of the module see it *)

Instance == [activeSessions |-> activeSessions,
             activeTransmitters |-> activeTransmitters,
             activeInstances |-> activeInstances,
             entropy |-> entropy,
             emitted |-> << >>,
             appended |-> << >>,
             threw |-> FALSE]

\* a TypeError (a property of undefined is read or written): the call is
\* abandoned with what was written so far
Throw(instance) == [instance EXCEPT !.threw = TRUE]

(* determineNearest: the rssiSignature of the device for..in visits last *)
determineNearest(devices) ==
  IF devices = << >> THEN << >>
  ELSE devices[Len(devices)][2].raddec.rssiSignature

----------------------------------------------------------------------------
(* The session log.  A text is the sequence of the pieces it was concatenated
   from: a delimiter, a line ending, or the text of one value (an identifier
   or a number, which holds no delimiter); + on texts is \o. *)

SESSION_LOG_PREFIX == "session-"
LOG_EXTENSION == ".csv"
LOG_DELIMITER == ","
CRLF == "\r\n"
SESSION_LOG_HEADER ==
  <<"time", ",", "timestamp", ",", "instanceId", ",",
    "receiverId[0]", ",", "rssi[0]", ",", "numberOfDecodings[0]", ",",
    "receiverId[1]", ",", "rssi[1]", ",", "numberOfDecodings[1]", ",",
    "receiverId[2]", ",", "rssi[2]", ",", "numberOfDecodings[2]", CRLF>>

\* the text JavaScript's + makes of a number
Digit == <<"0", "1", "2", "3", "4", "5", "6", "7", "8", "9">>
RECURSIVE DecimalOf(_)
DecimalOf(n) == IF n < 10 THEN Digit[n + 1]
                ELSE DecimalOf(n \div 10) \o Digit[(n % 10) + 1]
NumberToString(n) == IF n < 0 THEN "-" \o DecimalOf(-n) ELSE DecimalOf(n)

\* n as at least width digits
RECURSIVE Padded(_, _)
Padded(n, width) == IF width <= 1 THEN DecimalOf(n)
                    ELSE Padded(n \div 10, width - 1) \o Digit[(n % 10) + 1]

\* the civil date of the day that is `days` days after 1970-01-01, from its
\* 400-year era and its day of the era, then its year of the era, its day of
\* the year (from 1 March) and its month (from March)
CivilOfMonth(year, dayOfYear, mp) ==
  Padded(year + (IF mp >= 10 THEN 1 ELSE 0), 4) \o "-"
    \o Padded(IF mp < 10 THEN mp + 3 ELSE mp - 9, 2) \o "-"
    \o Padded(dayOfYear - (153 * mp + 2) \div 5 + 1, 2)
CivilOfYear(era, yoe, doe) ==
  LET dayOfYear == doe - (365 * yoe + yoe \div 4 - yoe \div 100)
  IN CivilOfMonth(yoe + era * 400, dayOfYear, (5 * dayOfYear + 2) \div 153)
CivilOfEra(era, doe) ==
  CivilOfYear(era,
              (doe - doe \div 1460 + doe \div 36524 - doe \div 146096) \div 365,
              doe)
CivilDate(days) ==
  CivilOfEra((days + 719468) \div 146097, (days + 719468) % 146097)

\* new Date(timestamp).toISOString(), "YYYY-MM-DDTHH:mm:ss.sssZ", as its date,
\* its time of day and its milliseconds
toISOString(timestamp) ==
  LET msOfDay == timestamp % 86400000
  IN [date |-> CivilDate(timestamp \div 86400000),
      clock |-> Padded(msOfDay \div 3600000, 2) \o ":"
                  \o Padded((msOfDay \div 60000) % 60, 2) \o ":"
                  \o Padded((msOfDay \div 1000) % 60, 2),
      millis |-> Padded(msOfDay % 1000, 3)]

\* the three columns of the receiver at `index` (from 0), appended to
\* sessionData by one turn of the loop
receiverColumns(nearest, index) ==
  IF index < Len(nearest)
  THEN LET receiver == nearest[index + 1]
       IN <<receiver.receiverId, LOG_DELIMITER,
            NumberToString(receiver.rssi), LOG_DELIMITER,
            NumberToString(receiver.numberOfDecodings)>>
  ELSE <<LOG_DELIMITER, LOG_DELIMITER, LOG_DELIMITER>>

(* logSessionData: the file and the data handed to fs.appendFile *)
logSessionData(session) ==
  LET filename == SESSION_LOG_PREFIX \o session.sessionId \o LOG_EXTENSION
      isoTime == toISOString(session.timestamp)
      time == isoTime.date \o " " \o isoTime.clock
      sessionData == <<time, LOG_DELIMITER,
                       NumberToString(session.timestamp), LOG_DELIMITER,
                       session.instanceId, LOG_DELIMITER>>
                     \o receiverColumns(session.nearest, 0)
                     \o receiverColumns(session.nearest, 1)
                     \o receiverColumns(session.nearest, 2)
  IN [filename |-> filename, data |-> sessionData \o <<CRLF>>]

(* emitSession *)
emitSession(instance, sessionId, instanceId, timestamp) ==
  IF sessionId \notin DOMAIN instance.activeSessions THEN Throw(instance)
  ELSE LET session ==
             [sessionId |-> sessionId,
              instanceId |-> instanceId,
              nearest |->
                determineNearest(instance.activeSessions[sessionId].devices),
              timestamp |-> timestamp]
       IN [instance EXCEPT
             !.emitted = Append(@, session),
             !.appended = IF isSessionLoggingEnabled
                          THEN Append(@, logSessionData(session))
                          ELSE @]

\* mutant: an update that is not initiating sets journeyStartTime back to
\* creationTime
updateSessions_ResetWhenBelow(instance, sessionId, raddec, instanceId, isInitiating, t) ==
  IF sessionId \notin DOMAIN instance.activeSessions THEN Throw(instance)
  ELSE LET old == instance.activeSessions[sessionId]
           session ==
             [devices |-> ObjSet(old.devices, raddec.signature,
                                 [raddec |-> raddec]),
              creationTime |-> old.creationTime,
              journeyStartTime |-> IF isInitiating THEN t
                                   ELSE old.creationTime]
           updated == [instance EXCEPT
                         !.activeSessions = MapSet(@, sessionId, session)]
       IN emitSession(updated, sessionId, instanceId, raddec.initialTime)

\* mutant: an update that is not initiating does not store the record
updateSessions_NoUpsertWhenBelow(instance, sessionId, raddec, instanceId, isInitiating, t) ==
  IF sessionId \notin DOMAIN instance.activeSessions THEN Throw(instance)
  ELSE LET old == instance.activeSessions[sessionId]
           session ==
             [devices |-> IF isInitiating
                          THEN ObjSet(old.devices, raddec.signature,
                                      [raddec |-> raddec])
                          ELSE old.devices,
              creationTime |-> old.creationTime,
              journeyStartTime |-> IF isInitiating THEN t
                                   ELSE old.journeyStartTime]
           updated == [instance EXCEPT
                         !.activeSessions = MapSet(@, sessionId, session)]
       IN emitSession(updated, sessionId, instanceId, raddec.initialTime)

\* mutant: journeyStartTime is refreshed whatever isInitiating is
updateSessions_AlwaysRefresh(instance, sessionId, raddec, instanceId, isInitiating, t) ==
  IF sessionId \notin DOMAIN instance.activeSessions THEN Throw(instance)
  ELSE LET old == instance.activeSessions[sessionId]
           session ==
             [devices |-> ObjSet(old.devices, raddec.signature,
                                 [raddec |-> raddec]),
              creationTime |-> old.creationTime,
              journeyStartTime |-> t]
           updated == [instance EXCEPT
                         !.activeSessions = MapSet(@, sessionId, session)]
       IN emitSession(updated, sessionId, instanceId, raddec.initialTime)

(* updateSessions; t is Date.now() *)
updateSessions(instance, sessionId, raddec, instanceId, isInitiating, t) ==
  IF sessionId \notin DOMAIN instance.activeSessions THEN Throw(instance)
  ELSE LET old == instance.activeSessions[sessionId]
           session ==
             [devices |-> ObjSet(old.devices, raddec.signature,
                                 [raddec |-> raddec]),
              creationTime |-> old.creationTime,
              journeyStartTime |-> IF isInitiating THEN t
                                   ELSE old.journeyStartTime]
           updated == [instance EXCEPT
                         !.activeSessions = MapSet(@, sessionId, session)]
       IN emitSession(updated, sessionId, instanceId, raddec.initialTime)

(* initiateSession; t is Date.now() *)
initiateSession(instance, raddec, instanceId, t) ==
  LET session == [devices |-> ObjSet(EmptyObject, raddec.signature,
                                     [raddec |-> raddec]),
                  creationTime |-> t,
                  journeyStartTime |-> t]
      sessionId == toHex(randomBytes(sessionIdentifierLength,
                                     instance.entropy + 1))
      created == [instance EXCEPT
                    !.entropy = @ + 1,
                    !.activeTransmitters = MapSet(@, raddec.signature, sessionId),
                    !.activeInstances = MapSet(@, instanceId, sessionId),
                    !.activeSessions = MapSet(@, sessionId, session),
                    !.appended =
                      IF isSessionLoggingEnabled
                      THEN Append(@, [filename |-> SESSION_LOG_PREFIX
                                                     \o sessionId
                                                     \o LOG_EXTENSION,
                                      data |-> SESSION_LOG_HEADER])
                      ELSE @]
  IN emitSession(created, sessionId, instanceId, raddec.initialTime)

----------------------------------------------------------------------------
(* JourneyInterpreter.handleRaddec *)

isAboveThreshold(raddec, threshold) == raddec.rssiSignature[1].rssi >= threshold

\* mutant: the comparison is the wrong way round
isWithinHoldoff_Reversed(holdoff, journeyStartTime, t) ==
  (holdoff + journeyStartTime) < t

isWithinHoldoff(holdoff, journeyStartTime, t) == (holdoff + journeyStartTime) > t

\* mutant: isPassingFilters starts out true and the filter is not consulted
processPackets_IgnoreFilter(raddec) ==
  IF advlibThrows(raddec.packets)
  THEN [instanceId |-> null, isWhitelisted |-> FALSE, isPassingFilters |-> TRUE]
  ELSE LET processedPackets == advlibProcess(raddec.packets)
           instanceId == lookupWhitelist(processedPackets, whitelistedDeviceIds)
       IN [instanceId |-> instanceId,
           isWhitelisted |-> instanceId # null,
           isPassingFilters |-> TRUE]

\* mutant: a payload advlib cannot decode is filtered as an empty object
processPackets_FilterOnFailure(raddec) ==
  LET processedPackets == IF advlibThrows(raddec.packets) THEN EmptyObject
                          ELSE advlibProcess(raddec.packets)
      instanceId == lookupWhitelist(processedPackets, whitelistedDeviceIds)
  IN [instanceId |-> instanceId,
      isWhitelisted |-> instanceId # null,
      isPassingFilters |-> isPacketsFiltered(processedPackets, advlibFilters)]

\* the try block: what lookupWhitelist and isPacketsFiltered leave in
\* instanceId, isWhitelisted and isPassingFilters; a throw of advlib.process
\* leaves their initial values
processPackets(raddec) ==
  IF advlibThrows(raddec.packets)
  THEN [instanceId |-> null, isWhitelisted |-> FALSE, isPassingFilters |-> FALSE]
  ELSE LET processedPackets == advlibProcess(raddec.packets)
           instanceId == lookupWhitelist(processedPackets, whitelistedDeviceIds)
       IN [instanceId |-> instanceId,
           isWhitelisted |-> instanceId # null,
           isPassingFilters |->
             isPacketsFiltered(processedPackets, advlibFilters)]

\* mutant: the signature's session is looked up before the whitelisted id's
resolveSession_SignatureFirst(instance, raddec, decoded) ==
  IF raddec.signature \in DOMAIN instance.activeTransmitters
  THEN [sessionId |-> instance.activeTransmitters[raddec.signature],
        instanceId |-> raddec.signature,
        instance |-> instance]
  ELSE IF decoded.isWhitelisted
          /\ decoded.instanceId \in DOMAIN instance.activeInstances
  THEN LET sessionId == instance.activeInstances[decoded.instanceId]
       IN [sessionId |-> sessionId,
           instanceId |-> decoded.instanceId,
           instance |-> [instance EXCEPT !.activeTransmitters =
                           MapSet(@, raddec.signature, sessionId)]]
  ELSE [sessionId |-> null,
        instanceId |-> decoded.instanceId,
        instance |-> instance]

\* mutant: the signature is not re-linked to the whitelisted id's session
resolveSession_NoRelink(instance, raddec, decoded) ==
  IF decoded.isWhitelisted /\ decoded.instanceId \in DOMAIN instance.activeInstances
  THEN [sessionId |-> instance.activeInstances[decoded.instanceId],
        instanceId |-> decoded.instanceId,
        instance |-> instance]
  ELSE IF raddec.signature \in DOMAIN instance.activeTransmitters
  THEN [sessionId |-> instance.activeTransmitters[raddec.signature],
        instanceId |-> raddec.signature,
        instance |-> instance]
  ELSE [sessionId |-> null,
        instanceId |-> decoded.instanceId,
        instance |-> instance]

\* "Whitelisted with active session" / "Active transmitter with active session"
resolveSession(instance, raddec, decoded) ==
  IF decoded.isWhitelisted /\ decoded.instanceId \in DOMAIN instance.activeInstances
  THEN LET sessionId == instance.activeInstances[decoded.instanceId]
       IN [sessionId |-> sessionId,
           instanceId |-> decoded.instanceId,
           instance |-> [instance EXCEPT !.activeTransmitters =
                           MapSet(@, raddec.signature, sessionId)]]
  ELSE IF raddec.signature \in DOMAIN instance.activeTransmitters
  THEN [sessionId |-> instance.activeTransmitters[raddec.signature],
        instanceId |-> raddec.signature,
        instance |-> instance]
  ELSE [sessionId |-> null,
        instanceId |-> decoded.instanceId,
        instance |-> instance]

\* mutant: the old session is not deleted before the new one is initiated
reinitiateSession_KeepOld(instance, sessionId, raddec, instanceId, t) ==
  initiateSession(instance, raddec, instanceId, t)

\* "Existing device (re)initiating a journey"
reinitiateSession(instance, sessionId, raddec, instanceId, t) ==
  initiateSession([instance EXCEPT !.activeSessions = MapDelete(@, sessionId)],
                  raddec, instanceId, t)

\* mutant: a below-threshold record that finds its session older than the
\* holdoff removes it (an idle expiry)
applyRaddec_ExpireWhenIdle(resolved, decoded, raddec, t) ==
  LET instance == resolved.instance
      sessionId == resolved.sessionId
      instanceId == resolved.instanceId
  IN IF isAboveThreshold(raddec, rssiThreshold)
     THEN IF sessionId # null
          THEN IF sessionId \notin DOMAIN instance.activeSessions
               THEN Throw(instance)
               ELSE IF isWithinHoldoff(reinitiationHoldoffMilliseconds,
                         instance.activeSessions[sessionId].journeyStartTime, t)
               THEN updateSessions(instance, sessionId, raddec, instanceId,
                                   TRUE, t)
               ELSE reinitiateSession(instance, sessionId, raddec, instanceId, t)
          ELSE IF decoded.isWhitelisted
          THEN initiateSession(instance, raddec, instanceId, t)
          ELSE IF decoded.isPassingFilters
          THEN initiateSession(instance, raddec, raddec.signature, t)
          ELSE instance
     ELSE IF sessionId # null
          THEN IF sessionId \notin DOMAIN instance.activeSessions
               THEN Throw(instance)
               ELSE IF isWithinHoldoff(reinitiationHoldoffMilliseconds,
                         instance.activeSessions[sessionId].journeyStartTime, t)
               THEN updateSessions(instance, sessionId, raddec, instanceId,
                                   FALSE, t)
               ELSE [instance EXCEPT
                       !.activeSessions = MapDelete(@, sessionId)]
          ELSE instance

\* the transitions, from the resolved session; t is Date.now(), which does
\* not advance while one record is handled
applyRaddec(resolved, decoded, raddec, t) ==
  LET instance == resolved.instance
      sessionId == resolved.sessionId
      instanceId == resolved.instanceId
  IN IF isAboveThreshold(raddec, rssiThreshold)
     THEN IF sessionId # null
          THEN IF sessionId \notin DOMAIN instance.activeSessions
               THEN Throw(instance)
               ELSE IF isWithinHoldoff(reinitiationHoldoffMilliseconds,
                         instance.activeSessions[sessionId].journeyStartTime, t)
               THEN updateSessions(instance, sessionId, raddec, instanceId,
                                   TRUE, t)
               ELSE reinitiateSession(instance, sessionId, raddec, instanceId, t)
          ELSE IF decoded.isWhitelisted
          THEN initiateSession(instance, raddec, instanceId, t)
          ELSE IF decoded.isPassingFilters
          THEN initiateSession(instance, raddec, raddec.signature, t)
          ELSE instance
     ELSE IF sessionId # null
          THEN updateSessions(instance, sessionId, raddec, instanceId, FALSE, t)
          ELSE instance

handleRaddec(instance, raddec, t) ==
  LET decoded == processPackets(raddec)
      resolved == resolveSession(instance, raddec, decoded)
      after == applyRaddec(resolved, decoded, raddec, t)
  IN [instance |-> after,
      locals |-> [handled |-> TRUE,
                  raddec |-> raddec,
                  time |-> t,
                  isActiveTransmitter |->
                    raddec.signature \in DOMAIN instance.activeTransmitters,
                  isAboveThreshold |-> isAboveThreshold(raddec, rssiThreshold),
                  sessionId |-> resolved.sessionId,
                  instanceId |-> resolved.instanceId,
                  isWhitelisted |-> decoded.isWhitelisted,
                  isPassingFilters |-> decoded.isPassingFilters,
                  threw |-> after.threw]]

----------------------------------------------------------------------------
(* History, kept for the statements about two records of one signature: for
   each signature the session and the time of the last above-threshold record
   of that signature that was emitted, forgotten when another above-threshold
   record resolves to that session, and no longer quiet when a
   below-threshold record does. *)

NoAbove == [sessionId |-> null, time |-> 0, quiet |-> FALSE]

recordAbove(history, locals, events, t) ==
  LET touched ==
        [s \in Signatures |->
           IF locals.sessionId # null /\ history[s].sessionId = locals.sessionId
           THEN IF locals.isAboveThreshold THEN NoAbove
                ELSE [history[s] EXCEPT !.quiet = FALSE]
           ELSE history[s]]
  IN IF locals.isAboveThreshold /\ events # << >>
     THEN [touched EXCEPT ![locals.raddec.signature] =
             [sessionId |-> events[1].sessionId, time |-> t, quiet |-> TRUE]]
     ELSE touched

\* History, kept for the statements about all the emissions of one session:
\* for each sessionId the instanceId it was first emitted with, forgotten
\* when the session leaves activeSessions (a sessionId is drawn once and a
\* deleted session is never emitted again).
recordEmitted(history, events, sessions) ==
  LET first(id) ==
        IF id \in DOMAIN history THEN history[id]
        ELSE events[CHOOSE i \in 1..Len(events) :
                      /\ events[i].sessionId = id
                      /\ \A j \in 1..(i - 1) : events[j].sessionId # id]
               .instanceId
      known == DOMAIN history \cup {events[i].sessionId : i \in 1..Len(events)}
  IN [id \in known \cap DOMAIN sessions |-> first(id)]

----------------------------------------------------------------------------
(* The constructor *)

\* the options the interpreter is constructed with: one whitelisted id, a
\* filter on one device id and a holdoff of 2 ms
FilterX == Obj(<< <<"deviceIds", Arr(<<"x1">>)>> >>)
FilterXOrTag == Obj(<< <<"deviceIds", Arr(<<"x1">>)>>, <<"name", Str("tag")>> >>)
OptionsFilterX ==
  [reinitiationHoldoffMilliseconds |-> Num(2),
   whitelistedDeviceIds |-> Arr(<<"w1">>),
   advlibFilters |-> FilterX]
OptionObjects == {OptionsFilterX}

\* the option objects the filter is exercised with
FilterTagOrX == Obj(<< <<"name", Str("tag")>>, <<"deviceIds", Arr(<<"x1">>)>> >>)
FilterUuidsOrPower ==
  Obj(<< <<"uuids", Arr(<<"feaa", "fe9a">>)>>, <<"txPower", Num(-4)>> >>)
FilterThree ==
  Obj(<< <<"deviceIds", Arr(<<"y1", "w1">>)>>, <<"uuids", Arr(<<"abcd">>)>>,
         <<"name", Str("other")>> >>)
FilterMistyped ==
  Obj(<< <<"txPower", Str("-4")>>, <<"name", Str("tag")>> >>)
FilterOptionObjects ==
  {[advlibFilters |-> f] :
     f \in {FilterX, FilterXOrTag, FilterTagOrX, FilterUuidsOrPower,
            FilterThree, FilterMistyped}}

\* the option objects the defaults of the constructor are exercised with: the
\* filter left out, given as null and given as an object with no properties,
\* and a session identifier length of 4 bytes
OptionsUnsetFilter ==
  [reinitiationHoldoffMilliseconds |-> Num(2),
   whitelistedDeviceIds |-> Arr(<<"w1">>)]
OptionsNullFilter ==
  [reinitiationHoldoffMilliseconds |-> Num(2),
   whitelistedDeviceIds |-> Arr(<<"w1">>),
   advlibFilters |-> Null]
OptionsEmptyFilter ==
  [reinitiationHoldoffMilliseconds |-> Num(2),
   whitelistedDeviceIds |-> Arr(<<"w1">>),
   advlibFilters |-> Obj(EmptyObject)]
OptionsShortIds ==
  [reinitiationHoldoffMilliseconds |-> Num(2),
   sessionIdentifierLength |-> Num(4)]
DefaultsOptionObjects ==
  {OptionsUnsetFilter, OptionsNullFilter, OptionsEmptyFilter, OptionsShortIds}

\* the option objects the whitelist is exercised with: the same two ids in
\* both orders, one id, an id no record carries, no id and no whitelist
WhitelistOptionObjects ==
  {[whitelistedDeviceIds |-> Arr(<<"w1", "x1">>)],
   [whitelistedDeviceIds |-> Arr(<<"x1", "w1">>)],
   [whitelistedDeviceIds |-> Arr(<<"w1">>)],
   [whitelistedDeviceIds |-> Arr(<<"y1">>)],
   [whitelistedDeviceIds |-> Arr(<< >>)],
   [rssiThreshold |-> Num(DEFAULT_RSSI_THRESHOLD)]}

\* the option object the session log is exercised with
OptionsLogging ==
  [isSessionLoggingEnabled |-> Bool(TRUE),
   reinitiationHoldoffMilliseconds |-> Num(2),
   whitelistedDeviceIds |-> Arr(<<"w1">>)]

\* the option objects a threshold and a holdoff of 0 are exercised with,
\* next to other values and to the options left out
ZeroOptionObjects ==
  {[rssiThreshold |-> Num(0)],
   [reinitiationHoldoffMilliseconds |-> Num(0)],
   [rssiThreshold |-> Num(-60), reinitiationHoldoffMilliseconds |-> Num(1)],
   [whitelistedDeviceIds |-> Arr(<<"w1">>)]}

NoRaddec == [signature |-> null, rssiSignature |-> << >>, packets |-> "plain",
             initialTime |-> 0]
NoLocals == [handled |-> FALSE, raddec |-> NoRaddec, time |-> 0,
             isActiveTransmitter |-> FALSE, isAboveThreshold |-> FALSE,
             sessionId |-> null, instanceId |-> null, isWhitelisted |-> FALSE,
             isPassingFilters |-> FALSE, threw |-> FALSE]

Constructor(opts) ==
  /\ options = opts
  /\ activeSessions = << >>
  /\ activeTransmitters = << >>
  /\ activeInstances = << >>
  /\ sessionIdentifierLength = DEFAULT_SESSION_IDENTIFIER_LENGTH
  /\ rssiThreshold =
       OrDefault(options, "rssiThreshold", Num(DEFAULT_RSSI_THRESHOLD)).v
  /\ reinitiationHoldoffMilliseconds =
       OrDefault(options, "reinitiationHoldoffMilliseconds",
                 Num(DEFAULT_REINITIATION_HOLDOFF_MILLISECONDS)).v
  /\ advlibFilters = OrDefault(options, "advlibFilters", DEFAULT_ADVLIB_FILTERS)
  /\ whitelistedDeviceIds =
       OrDefault(options, "whitelistedDeviceIds", DEFAULT_WHITELISTED_DEVICE_IDS)
  /\ isSessionLoggingEnabled =
       OrDefault(options, "isSessionLoggingEnabled",
                 DEFAULT_IS_SESSION_LOGGING_ENABLED).v
  /\ now = 0
  /\ entropy = 0
  /\ records = 0
  /\ emitted = << >>
  /\ appended = << >>
  /\ last = NoLocals
  /\ lastAbove = [s \in Signatures |-> NoAbove]
  /\ emittedAs = << >>

Init == \E opts \in OptionObjects : Constructor(opts)

----------------------------------------------------------------------------
(* The actions *)

\* barnowl delivers one record and handleRaddec runs to completion
HandleRaddec(raddec) ==
  LET result == handleRaddec(Instance, raddec, now)
  IN /\ records < MaxRecords
     /\ records' = records + 1
     /\ activeSessions' = result.instance.activeSessions
     /\ activeTransmitters' = result.instance.activeTransmitters
     /\ activeInstances' = result.instance.activeInstances
     /\ entropy' = result.instance.entropy
     /\ emitted' = result.instance.emitted
     /\ appended' = result.instance.appended
     /\ last' = result.locals
     /\ lastAbove' = recordAbove(lastAbove, result.locals,
                                 result.instance.emitted, now)
     /\ emittedAs' = recordEmitted(emittedAs, result.instance.emitted,
                                   result.instance.activeSessions)
     /\ UNCHANGED <<options, config, now>>

\* a millisecond passes
Tick ==
  /\ now < MaxTime
  /\ now' = now + 1
  /\ UNCHANGED <<options, registry, config, entropy, records, emitted,
               appended, last, lastAbove, emittedAs>>

Next ==
  \/ \E raddec \in Raddecs(now) : HandleRaddec(raddec)
  \/ Tick

Spec == Init /\ [][Next]_vars

\* the filter under each of its configurations: every payload, delivered
\* above the threshold on one signature
InitFilter == \E opts \in FilterOptionObjects : Constructor(opts)
NextFilter == \E raddec \in FilterRaddecs(now) : HandleRaddec(raddec)
SpecFilter == InitFilter /\ [][NextFilter]_vars

\* the defaults of the constructor: records of one signature, among them
\* records whose packets advlib cannot decode
InitDefaults == \E opts \in DefaultsOptionObjects : Constructor(opts)
NextDefaults ==
  \/ \E raddec \in DefaultsRaddecs(now) : HandleRaddec(raddec)
  \/ Tick
SpecDefaults == InitDefaults /\ [][NextDefaults]_vars

\* the whitelist under each of its configurations: every payload, delivered
\* above the threshold
InitWhitelist == \E opts \in WhitelistOptionObjects : Constructor(opts)
NextWhitelist == \E raddec \in WhitelistRaddecs(now) : HandleRaddec(raddec)
SpecWhitelist == InitWhitelist /\ [][NextWhitelist]_vars

\* the session log: logging enabled, records of one to four receivers
InitLog == Constructor(OptionsLogging)
NextLog ==
  \/ \E raddec \in LogRaddecs(now) : HandleRaddec(raddec)
  \/ Tick
SpecLog == InitLog /\ [][NextLog]_vars

\* a threshold and a holdoff of 0
InitZero == \E opts \in ZeroOptionObjects : Constructor(opts)
NextZero ==
  \/ \E raddec \in ZeroRaddecs(now) : HandleRaddec(raddec)
  \/ Tick
SpecZero == InitZero /\ [][NextZero]_vars

----------------------------------------------------------------------------
(* What the statements below read *)

\* this step is one call of handleRaddec; its record is last'.raddec and it
\* ran at time now
Handled == records' = records + 1

\* the whitelisted id the record carries, null when it carries none
WhitelistedIdOf(raddec) ==
  IF advlibThrows(raddec.packets) THEN null
  ELSE lookupWhitelist(advlibProcess(raddec.packets), whitelistedDeviceIds)

\* the record passes the configured filter
PassesFilter(raddec) ==
  /\ ~advlibThrows(raddec.packets)
  /\ isPacketsFiltered(advlibProcess(raddec.packets), advlibFilters)

AboveThreshold(raddec) == raddec.rssiSignature[1].rssi >= rssiThreshold

----------------------------------------------------------------------------
(* C1 *)

\* C1: every key of activeTransmitters and every key of activeInstances maps
\* to a sessionId that is a key of activeSessions (no dangling pointers).
C1_NoDanglingPointers ==
  /\ \A sig \in DOMAIN activeTransmitters :
       activeTransmitters[sig] \in DOMAIN activeSessions
  /\ \A id \in DOMAIN activeInstances :
       activeInstances[id] \in DOMAIN activeSessions

----------------------------------------------------------------------------
(* C2 *)

\* C2: handleRaddec completes normally on every record: no call ends in an
\* exception.
C2_NeverThrows == ~last.threw

----------------------------------------------------------------------------
(* C3 *)

\* C3: address cycling.  When whitelisted id w has the active session S, a
\* record that carries w on a signature not linked to S, handled before the
\* holdoff has elapsed since S.journeyStartTime, is emitted with sessionId S,
\* and afterwards activeTransmitters maps the signature to S.
C3_AddressCycling ==
  [][\A w \in DOMAIN activeInstances :
       LET S == activeInstances[w]
           raddec == last'.raddec
       IN ( /\ Handled
            /\ S \in DOMAIN activeSessions
            /\ WhitelistedIdOf(raddec) = w
            /\ ~( /\ raddec.signature \in DOMAIN activeTransmitters
                  /\ activeTransmitters[raddec.signature] = S )
            /\ now - activeSessions[S].journeyStartTime
                 < reinitiationHoldoffMilliseconds )
          => /\ Len(emitted') = 1
             /\ emitted'[1].sessionId = S
             /\ raddec.signature \in DOMAIN activeTransmitters'
             /\ activeTransmitters'[raddec.signature] = S]_vars

\* a whitelisted record has just joined, under a second signature, a session
\* that was created earlier under another one
C3_Witness ==
  /\ last.handled /\ last.isWhitelisted /\ ~last.threw
  /\ Len(emitted) = 1
  /\ LET S == emitted[1].sessionId
         devices == activeSessions[S].devices
     IN /\ activeInstances[last.instanceId] = S
        /\ Len(devices) = 2
        /\ devices[2][1] = last.raddec.signature
        /\ devices[2][2].raddec = last.raddec
        /\ activeTransmitters[last.raddec.signature] = S
        /\ activeTransmitters[devices[1][1]] = S

----------------------------------------------------------------------------
(* C4 *)

\* C4 as stated: two above-threshold records of one signature, the first
\* emitted with session S, no other record for S in between, the second
\* handled less than the holdoff after the first: the second is emitted with
\* sessionId S and S.journeyStartTime becomes its processing time.
C4_Original ==
  [][\A sig \in Signatures :
       LET first == lastAbove[sig]
       IN ( /\ Handled
            /\ first.sessionId # null /\ first.quiet
            /\ last'.raddec.signature = sig
            /\ AboveThreshold(last'.raddec)
            /\ now - first.time < reinitiationHoldoffMilliseconds )
          => /\ Len(emitted') = 1
             /\ emitted'[1].sessionId = first.sessionId
             /\ first.sessionId \in DOMAIN activeSessions'
             /\ activeSessions'[first.sessionId].journeyStartTime = now]_vars

\* C4 amended: the same, for a second record that resolves to S (its
\* whitelisted id, when it has an entry in activeInstances, maps to S, and
\* otherwise the signature is still linked to S).
C4_ContinuesWithinHoldoff ==
  [][\A sig \in Signatures :
       LET first == lastAbove[sig]
       IN ( /\ Handled
            /\ first.sessionId # null /\ first.quiet
            /\ last'.raddec.signature = sig
            /\ AboveThreshold(last'.raddec)
            /\ now - first.time < reinitiationHoldoffMilliseconds
            /\ last'.sessionId = first.sessionId )
          => /\ Len(emitted') = 1
             /\ emitted'[1].sessionId = first.sessionId
             /\ first.sessionId \in DOMAIN activeSessions'
             /\ activeSessions'[first.sessionId].journeyStartTime = now]_vars

\* an above-threshold record has just continued, at a later time, the session
\* its signature initiated
C4_Witness ==
  /\ last.handled /\ last.isAboveThreshold /\ ~last.threw
  /\ Len(emitted) = 1
  /\ emitted[1].sessionId = last.sessionId
  /\ LET session == activeSessions[last.sessionId]
     IN /\ session.journeyStartTime = now
        /\ session.creationTime < now
        /\ Keys(session.devices) = {last.raddec.signature}

----------------------------------------------------------------------------
(* C5 *)

\* C5 as stated: two above-threshold records of one signature, the first
\* emitted with session S, no above-threshold record for S in between, the
\* second handled more than the holdoff after the first: the second is
\* emitted with another sessionId, S is no longer in activeSessions and
\* activeTransmitters maps the signature to the second sessionId.
C5_Original ==
  [][\A sig \in Signatures :
       LET first == lastAbove[sig]
       IN ( /\ Handled
            /\ first.sessionId # null
            /\ last'.raddec.signature = sig
            /\ AboveThreshold(last'.raddec)
            /\ now - first.time > reinitiationHoldoffMilliseconds )
          => /\ Len(emitted') = 1
             /\ emitted'[1].sessionId # first.sessionId
             /\ first.sessionId \notin DOMAIN activeSessions'
             /\ activeTransmitters'[sig] = emitted'[1].sessionId]_vars

\* C5 amended: the same, for a second record that resolves to S.
C5_ReinitiatesAfterHoldoff ==
  [][\A sig \in Signatures :
       LET first == lastAbove[sig]
       IN ( /\ Handled
            /\ first.sessionId # null
            /\ last'.raddec.signature = sig
            /\ AboveThreshold(last'.raddec)
            /\ now - first.time > reinitiationHoldoffMilliseconds
            /\ last'.sessionId = first.sessionId )
          => /\ Len(emitted') = 1
             /\ emitted'[1].sessionId # first.sessionId
             /\ first.sessionId \notin DOMAIN activeSessions'
             /\ activeTransmitters'[sig] = emitted'[1].sessionId]_vars

\* an above-threshold record has just replaced the session its signature
\* resolved to by a new one
C5_Witness ==
  /\ last.handled /\ last.isAboveThreshold /\ ~last.threw
  /\ last.sessionId # null
  /\ Len(emitted) = 1
  /\ emitted[1].sessionId # last.sessionId
  /\ last.sessionId \notin DOMAIN activeSessions
  /\ activeTransmitters[last.raddec.signature] = emitted[1].sessionId
  /\ activeSessions[emitted[1].sessionId].creationTime = now
  /\ lastAbove[last.raddec.signature].sessionId = emitted[1].sessionId

----------------------------------------------------------------------------
(* C6 *)

\* C6: a below-threshold record that resolves to an active session S emits
\* one snapshot with sessionId S and, in the sessions and in activeInstances,
\* changes only S.devices[record.signature], which becomes this record:
\* S.journeyStartTime, S.creationTime, the other entries of S.devices, the
\* other sessions, the set of active sessionIds and activeInstances stay as
\* they were, however old S.journeyStartTime is.
C6_BelowThresholdFrame ==
  [][LET raddec == last'.raddec
         S == last'.sessionId
     IN ( /\ Handled
          /\ ~AboveThreshold(raddec)
          /\ S # null
          /\ S \in DOMAIN activeSessions )
        => /\ Len(emitted') = 1
           /\ emitted'[1].sessionId = S
           /\ DOMAIN activeSessions' = DOMAIN activeSessions
           /\ \A id \in DOMAIN activeSessions \ {S} :
                activeSessions'[id] = activeSessions[id]
           /\ activeSessions'[S].journeyStartTime =
                activeSessions[S].journeyStartTime
           /\ activeSessions'[S].creationTime = activeSessions[S].creationTime
           /\ Keys(activeSessions'[S].devices) =
                Keys(activeSessions[S].devices) \cup {raddec.signature}
           /\ \A k \in Keys(activeSessions[S].devices) \ {raddec.signature} :
                ObjGet(activeSessions'[S].devices, k) =
                  ObjGet(activeSessions[S].devices, k)
           /\ ObjGet(activeSessions'[S].devices, raddec.signature) =
                [raddec |-> raddec]
           /\ activeInstances' = activeInstances]_vars

\* a below-threshold record has just been added to a session whose
\* journeyStartTime is older than the holdoff
C6_Witness ==
  /\ last.handled /\ ~last.isAboveThreshold /\ ~last.threw
  /\ last.sessionId \in DOMAIN activeSessions
  /\ Len(emitted) = 1
  /\ emitted[1].sessionId = last.sessionId
  /\ LET session == activeSessions[last.sessionId]
     IN /\ now - session.journeyStartTime > reinitiationHoldoffMilliseconds
        /\ ObjGet(session.devices, last.raddec.signature).raddec = last.raddec
        /\ last.raddec.initialTime = now

----------------------------------------------------------------------------
(* C7 *)

\* C7: an above-threshold record that resolves to no session (its whitelisted
\* id, if any, and its signature have no entry), carries no whitelisted id
\* and does not pass the filter is not emitted and leaves activeSessions,
\* activeTransmitters and activeInstances as they were.
C7_UnmatchedRecordIsDropped ==
  [][LET raddec == last'.raddec
     IN ( /\ Handled
          /\ AboveThreshold(raddec)
          /\ raddec.signature \notin DOMAIN activeTransmitters
          /\ WhitelistedIdOf(raddec) = null
          /\ ~PassesFilter(raddec) )
        => /\ emitted' = << >>
           /\ ~last'.threw
           /\ registry' = registry]_vars

\* an above-threshold record of an unknown signature, neither whitelisted nor
\* passing the filter, has just been handled
C7_Witness ==
  /\ last.handled /\ last.isAboveThreshold
  /\ last.sessionId = null
  /\ ~last.isWhitelisted /\ ~last.isPassingFilters
  /\ last.raddec.signature \notin DOMAIN activeTransmitters
  /\ emitted = << >>
  /\ activeSessions # << >>

----------------------------------------------------------------------------
(* C8 *)

\* the call created a session or upserted a device into one: the record is
\* the value of devices[signature] in a session that is new, or that held
\* another value there, or that was refreshed by this call
CreatedOrUpserted ==
  \E id \in DOMAIN activeSessions' :
    /\ last'.raddec.signature \in Keys(activeSessions'[id].devices)
    /\ ObjGet(activeSessions'[id].devices, last'.raddec.signature) =
         [raddec |-> last'.raddec]
    /\ \/ id \notin DOMAIN activeSessions
       \/ id = last'.sessionId

\* C8: each handled record produces at most one 'session' emission, exactly
\* one if and only if it created a session or upserted a device into one,
\* and a record that produces no emission leaves the three registry maps
\* unchanged.
C8_EmissionIffChange ==
  [][Handled =>
       /\ Len(emitted') <= 1
       /\ (Len(emitted') = 1) <=> CreatedOrUpserted
       /\ (emitted' = << >>) => (registry' = registry)]_vars

----------------------------------------------------------------------------
(* C9 *)

\* C9: the nearest field of every emitted snapshot is the rssiSignature of
\* the record just processed.
C9_NearestIsCurrentRecord ==
  last.handled =>
    \A i \in 1..Len(emitted) : emitted[i].nearest = last.raddec.rssiSignature

----------------------------------------------------------------------------
(* C10 *)

\* a configured property matches the record: a list-valued one when some
\* configured id occurs in the record's list, a scalar one on exact equality
ConfiguredPropertyMatches(processedPackets, property, configured) ==
  /\ property \in DOMAIN processedPackets
  /\ processedPackets[property].kind = configured.kind
  /\ IF configured.kind = "array"
     THEN \E id \in {configured.v[i] : i \in 1..Len(configured.v)} :
            id \in {processedPackets[property].v[j] :
                      j \in 1..Len(processedPackets[property].v)}
     ELSE processedPackets[property].v = configured.v

----------------------------------------------------------------------------
(* C11 *)

\* the filter configuration is unset (null) or an object with no properties
FilterUnsetOrEmpty ==
  \/ advlibFilters.kind = "null"
  \/ advlibFilters.kind = "object" /\ advlibFilters.v = << >>

\* C11: with the filter unset (null) or empty (an object with no properties)
\* every decoded record passes the filter, and an above-threshold one with no
\* session (its signature has no entry) and no whitelisted id creates a
\* session whose instanceId is its signature.
C11_UnsetOrEmptyFilterAcceptsAll ==
  [][LET raddec == last'.raddec
     IN ( /\ Handled
          /\ FilterUnsetOrEmpty
          /\ ~advlibThrows(raddec.packets) )
        => /\ last'.isPassingFilters
           /\ ( /\ AboveThreshold(raddec)
                /\ raddec.signature \notin DOMAIN activeTransmitters
                /\ WhitelistedIdOf(raddec) = null )
              => /\ Len(emitted') = 1
                 /\ emitted'[1].instanceId = raddec.signature
                 /\ emitted'[1].sessionId \notin DOMAIN activeSessions
                 /\ emitted'[1].sessionId \in DOMAIN activeSessions'
                 /\ activeTransmitters'[raddec.signature] =
                      emitted'[1].sessionId]_vars

----------------------------------------------------------------------------
(* C12 *)

\* C12: a record whose packets cannot be decoded is handled without an
\* exception, as a record with no whitelisted id that fails the filter, also
\* when no filter is configured: when its signature has no session it is
\* dropped (no emission, no session created, the registry as it was), and
\* when its signature is linked to a session S it is emitted with
\* instanceId = the signature, S being continued (below the threshold, or
\* less than the holdoff after S.journeyStartTime) or replaced by a new
\* session (above the threshold, more than the holdoff after it).
C12_DecodeFailureIsNotFatal ==
  [][LET raddec == last'.raddec
         sig == raddec.signature
     IN ( Handled /\ advlibThrows(raddec.packets) )
        => /\ ~last'.isWhitelisted
           /\ ~last'.isPassingFilters
           /\ sig \notin DOMAIN activeTransmitters
              => /\ ~last'.threw
                 /\ emitted' = << >>
                 /\ registry' = registry
           /\ ( /\ sig \in DOMAIN activeTransmitters
                /\ activeTransmitters[sig] \in DOMAIN activeSessions )
              => LET S == activeTransmitters[sig]
                     age == now - activeSessions[S].journeyStartTime
                     continued ==
                       /\ emitted'[1].sessionId = S
                       /\ S \in DOMAIN activeSessions'
                       /\ ObjGet(activeSessions'[S].devices, sig) =
                            [raddec |-> raddec]
                     reinitiated ==
                       /\ emitted'[1].sessionId \notin DOMAIN activeSessions
                       /\ emitted'[1].sessionId \in DOMAIN activeSessions'
                       /\ S \notin DOMAIN activeSessions'
                       /\ activeTransmitters'[sig] = emitted'[1].sessionId
                 IN /\ ~last'.threw
                    /\ Len(emitted') = 1
                    /\ emitted'[1].instanceId = sig
                    /\ continued \/ (AboveThreshold(raddec) /\ reinitiated)
                    /\ ( ~AboveThreshold(raddec)
                         \/ age < reinitiationHoldoffMilliseconds )
                       => continued
                    /\ ( AboveThreshold(raddec)
                         /\ age > reinitiationHoldoffMilliseconds )
                       => reinitiated]_vars

\* with no filter configured, a record that cannot be decoded has just
\* continued, under its signature, the session a whitelisted id had created
C12_Witness ==
  /\ last.handled /\ ~last.threw
  /\ advlibThrows(last.raddec.packets)
  /\ advlibFilters.kind = "null"
  /\ last.isAboveThreshold
  /\ Len(emitted) = 1
  /\ emitted[1].sessionId = last.sessionId
  /\ emitted[1].instanceId = last.raddec.signature
  /\ "w1" \in DOMAIN activeInstances
  /\ activeInstances["w1"] = last.sessionId
  /\ activeSessions[last.sessionId].journeyStartTime = now
  /\ activeSessions[last.sessionId].creationTime < now

----------------------------------------------------------------------------
(* C13 *)

\* C13: while a sessionId stays in activeSessions its journeyStartTime never
\* decreases, and it changes only in the handling of an above-threshold
\* record that resolved to that session within the holdoff, which sets it to
\* the processing time.
C13_JourneyStartTimeMonotonic ==
  [][\A id \in DOMAIN activeSessions \cap DOMAIN activeSessions' :
       LET before == activeSessions[id].journeyStartTime
           after == activeSessions'[id].journeyStartTime
       IN /\ after >= before
          /\ after # before
             => /\ Handled
                /\ AboveThreshold(last'.raddec)
                /\ last'.sessionId = id
                /\ now - before < reinitiationHoldoffMilliseconds
                /\ after = now]_vars

\* a below-threshold record has just left alone the journeyStartTime of a
\* session that an earlier above-threshold record had refreshed
C13_Witness ==
  /\ last.handled /\ ~last.isAboveThreshold /\ ~last.threw
  /\ last.sessionId \in DOMAIN activeSessions
  /\ LET session == activeSessions[last.sessionId]
     IN /\ session.creationTime < session.journeyStartTime
        /\ session.journeyStartTime < now

----------------------------------------------------------------------------
(* C14 *)

\* C14: a session leaves activeSessions only in the handling of an
\* above-threshold record that resolved to it once the holdoff had elapsed
\* since its journeyStartTime, and that handling adds a replacement; nothing
\* else (a below-threshold record, a dropped record, a continuation, time
\* passing) removes a session.  A session enters activeSessions only in the
\* handling of an above-threshold record that resolved to no session (new
\* session) or whose session is replaced (reinitiation), as the session that
\* record is emitted with.
C14_SessionLifecycle ==
  [][/\ \A id \in DOMAIN activeSessions \ DOMAIN activeSessions' :
          /\ Handled
          /\ AboveThreshold(last'.raddec)
          /\ last'.sessionId = id
          /\ now - activeSessions[id].journeyStartTime
               >= reinitiationHoldoffMilliseconds
          /\ Len(emitted') = 1
          /\ emitted'[1].sessionId \in
               DOMAIN activeSessions' \ DOMAIN activeSessions
     /\ \A id \in DOMAIN activeSessions' \ DOMAIN activeSessions :
          /\ Handled
          /\ AboveThreshold(last'.raddec)
          /\ Len(emitted') = 1
          /\ emitted'[1].sessionId = id
          /\ \/ /\ last'.sessionId = null
                /\ last'.isWhitelisted \/ last'.isPassingFilters
             \/ /\ last'.sessionId \in DOMAIN activeSessions
                /\ last'.sessionId \notin DOMAIN activeSessions'
     /\ ~Handled => activeSessions' = activeSessions]_vars

\* a record has just replaced its session by a new one while another session
\* stayed in activeSessions
C14_Witness ==
  /\ last.handled /\ last.isAboveThreshold /\ ~last.threw
  /\ last.sessionId # null
  /\ last.sessionId \notin DOMAIN activeSessions
  /\ Len(emitted) = 1
  /\ emitted[1].sessionId \in DOMAIN activeSessions
  /\ Cardinality(DOMAIN activeSessions) = 2
  /\ entropy = 3

----------------------------------------------------------------------------
(* C15 *)

\* the sessionIdentifierLength of the constructor options, 8 when the option
\* is left out
RequestedIdentifierLength ==
  IF "sessionIdentifierLength" \in DOMAIN options
  THEN options["sessionIdentifierLength"].v
  ELSE DEFAULT_SESSION_IDENTIFIER_LENGTH

\* C15: every generated sessionId (the keys of activeSessions and the
\* sessionId of every emitted snapshot) has 2 x N characters, N being the
\* sessionIdentifierLength of the constructor options, 8 when left out.
C15_SessionIdLength ==
  /\ \A id \in DOMAIN activeSessions : Len(id) = 2 * RequestedIdentifierLength
  /\ \A i \in 1..Len(emitted) :
       Len(emitted[i].sessionId) = 2 * RequestedIdentifierLength

----------------------------------------------------------------------------
(* C16 *)

\* C16: an above-threshold record that resolved to session S and is handled
\* when now - S.journeyStartTime equals the holdoff continues S (it is
\* emitted with sessionId S, S stays and its journeyStartTime becomes now);
\* S is replaced only when now - S.journeyStartTime exceeds the holdoff.
C16_BoundaryContinues ==
  [][\A S \in DOMAIN activeSessions :
       LET age == now - activeSessions[S].journeyStartTime
       IN ( /\ Handled
            /\ AboveThreshold(last'.raddec)
            /\ last'.sessionId = S )
          => /\ age = reinitiationHoldoffMilliseconds
                => /\ Len(emitted') = 1
                   /\ emitted'[1].sessionId = S
                   /\ S \in DOMAIN activeSessions'
                   /\ activeSessions'[S].journeyStartTime = now
             /\ S \notin DOMAIN activeSessions'
                => age > reinitiationHoldoffMilliseconds]_vars

----------------------------------------------------------------------------
(* C17 *)

\* C17: when an above-threshold record replaces the session S_old it resolved
\* to (a hard reinitiation), afterwards no key of activeSessions,
\* activeTransmitters or activeInstances leads to S_old, and the record is
\* emitted with a session S_new # S_old whose devices hold exactly this
\* record under its signature, whose creationTime and journeyStartTime are
\* the processing time, and which the record's signature and the resolved
\* identity both map to.
C17_HardReinitiation ==
  [][\A S_old \in DOMAIN activeSessions :
       ( /\ Handled
         /\ AboveThreshold(last'.raddec)
         /\ last'.sessionId = S_old
         /\ S_old \notin DOMAIN activeSessions' )
       => /\ \A sig \in DOMAIN activeTransmitters' :
               activeTransmitters'[sig] # S_old
          /\ \A id \in DOMAIN activeInstances' :
               activeInstances'[id] # S_old
          /\ Len(emitted') = 1
          /\ LET S_new == emitted'[1].sessionId
             IN /\ S_new # S_old
                /\ S_new \in DOMAIN activeSessions'
                /\ activeSessions'[S_new].devices =
                     << <<last'.raddec.signature, [raddec |-> last'.raddec]>> >>
                /\ activeSessions'[S_new].creationTime = now
                /\ activeSessions'[S_new].journeyStartTime = now
                /\ activeTransmitters'[last'.raddec.signature] = S_new
                /\ activeInstances'[last'.instanceId] = S_new]_vars

----------------------------------------------------------------------------
(* C18 *)

\* C18: resolution priority.  A record whose whitelisted id w maps to the
\* session S1 while its signature maps to another session S2 resolves to S1
\* with instanceId = w: it is emitted with instanceId w and with S1 or the
\* session that replaces S1, its signature is linked to the session it is
\* emitted with, and S2 is left as it was.  A record whose signature has a
\* session resolves to that session with instanceId = the signature exactly
\* when it carries no whitelisted id or that id has no entry in
\* activeInstances.
C18_WhitelistFirst ==
  [][LET raddec == last'.raddec
         sig == raddec.signature
         w == WhitelistedIdOf(raddec)
     IN ( Handled /\ sig \in DOMAIN activeTransmitters )
        => /\ ( /\ w # null
                /\ w \in DOMAIN activeInstances
                /\ activeInstances[w] \in DOMAIN activeSessions
                /\ activeInstances[w] # activeTransmitters[sig] )
              => LET S1 == activeInstances[w]
                     S2 == activeTransmitters[sig]
                 IN /\ last'.sessionId = S1
                    /\ last'.instanceId = w
                    /\ Len(emitted') = 1
                    /\ emitted'[1].instanceId = w
                    /\ \/ emitted'[1].sessionId = S1
                       \/ /\ S1 \notin DOMAIN activeSessions'
                          /\ emitted'[1].sessionId \notin DOMAIN activeSessions
                    /\ emitted'[1].sessionId \in DOMAIN activeSessions'
                    /\ activeTransmitters'[sig] = emitted'[1].sessionId
                    /\ activeInstances'[w] = emitted'[1].sessionId
                    /\ S2 \in DOMAIN activeSessions
                       => /\ S2 \in DOMAIN activeSessions'
                          /\ activeSessions'[S2] = activeSessions[S2]
           /\ ( /\ last'.sessionId = activeTransmitters[sig]
                /\ last'.instanceId = sig )
              <=> (w = null \/ w \notin DOMAIN activeInstances)]_vars

\* a whitelisted record has just joined the session of its whitelisted id
\* although its signature had a session of its own, which is still there
C18_Witness ==
  /\ last.handled /\ last.isWhitelisted /\ last.isActiveTransmitter
  /\ ~last.threw
  /\ Len(emitted) = 1
  /\ emitted[1].sessionId = last.sessionId
  /\ emitted[1].instanceId = "w1"
  /\ activeTransmitters[last.raddec.signature] = last.sessionId
  /\ \E S2 \in DOMAIN activeSessions \ {last.sessionId} :
       /\ Keys(activeSessions[S2].devices) = {last.raddec.signature}
       /\ ObjGet(activeSessions[S2].devices, last.raddec.signature).raddec.packets
            # "beaconW"
       /\ Len(activeSessions[last.sessionId].devices) = 2

----------------------------------------------------------------------------
(* C19 *)

\* the deviceIds advlib decoded from the record, none when it decoded no
\* deviceIds property
DecodedDeviceIds(raddec) ==
  LET processedPackets == advlibProcess(raddec.packets)
  IN IF "deviceIds" \in DOMAIN processedPackets
     THEN processedPackets["deviceIds"].v
     ELSE << >>

\* the first of the decoded deviceIds that is a member of the whitelist, null
\* when there is none
FirstListed(deviceIds, whitelist) ==
  LET listed == {whitelist[i] : i \in 1..Len(whitelist)}
      hits == {i \in 1..Len(deviceIds) : deviceIds[i] \in listed}
  IN IF hits = {} THEN null
     ELSE deviceIds[CHOOSE i \in hits : \A j \in hits : i <= j]

\* C19: for a decoded record, lookupWhitelist finds the first of its decoded
\* deviceIds, in decoded order, that is a member of the whitelist whatever the
\* order of the whitelist, and none when deviceIds is absent, when no element
\* is whitelisted or when the whitelist is empty: the record is whitelisted
\* exactly when there is such an id, and that id is its instanceId whenever
\* the id has a session or the signature has none.
C19_FirstWhitelistedInDecodedOrder ==
  [][LET raddec == last'.raddec
         expected == FirstListed(DecodedDeviceIds(raddec),
                                 whitelistedDeviceIds.v)
     IN ( Handled /\ ~advlibThrows(raddec.packets) )
        => /\ last'.isWhitelisted <=> expected # null
           /\ ( \/ expected \in DOMAIN activeInstances
                \/ raddec.signature \notin DOMAIN activeTransmitters )
              => last'.instanceId = expected
           /\ ( \/ "deviceIds" \notin DOMAIN advlibProcess(raddec.packets)
                \/ whitelistedDeviceIds.v = << >> )
              => ~last'.isWhitelisted]_vars

\* a record that carries two whitelisted ids has just started a session for
\* the one it carries first, which is the second of the whitelist
C19_Witness ==
  /\ last.handled /\ last.isWhitelisted
  /\ DecodedDeviceIds(last.raddec) = <<"x1", "w1">>
  /\ whitelistedDeviceIds.v = <<"w1", "x1">>
  /\ last.sessionId = null
  /\ last.instanceId = "x1"
  /\ Len(emitted) = 1
  /\ emitted[1].instanceId = "x1"
  /\ activeInstances["x1"] = emitted[1].sessionId

----------------------------------------------------------------------------
(* C20 *)

\* String.prototype.split(LOG_DELIMITER) of a text: its fields
RECURSIVE SplitFields(_, _, _)
SplitFields(pieces, field, fields) ==
  IF pieces = << >> THEN Append(fields, field)
  ELSE IF Head(pieces) = LOG_DELIMITER
       THEN SplitFields(Tail(pieces), "", Append(fields, field))
       ELSE SplitFields(Tail(pieces), field \o Head(pieces), fields)
Fields(text) == SplitFields(text, "", << >>)

\* a line of the log without its line ending
WithoutLineEnding(data) ==
  IF data # << >> /\ data[Len(data)] = CRLF
  THEN SubSeq(data, 1, Len(data) - 1)
  ELSE data

\* the row appended for the snapshot the last call emitted
LoggedRow == WithoutLineEnding(appended[Len(appended)].data)

\* C20: the row logged for an emitted snapshot with one or more nearest
\* receivers has as many comma-separated fields as the header, 12: the time,
\* the timestamp, the instanceId and, for k = 0..2, receiverId[k], rssi[k]
\* and numberOfDecodings[k] of the k-th nearest receiver, each in its own
\* column, empty when there is no k-th receiver.
C20_RowHasHeaderColumns ==
  ( /\ isSessionLoggingEnabled
    /\ Len(emitted) = 1
    /\ Len(emitted[1].nearest) >= 1 )
  => LET session == emitted[1]
         fields == Fields(LoggedRow)
     IN /\ Len(Fields(WithoutLineEnding(SESSION_LOG_HEADER))) = 12
        /\ Len(fields) = 12
        /\ fields[2] = NumberToString(session.timestamp)
        /\ fields[3] = session.instanceId
        /\ \A k \in 0..2 :
             IF k < Len(session.nearest)
             THEN /\ fields[4 + 3 * k] = session.nearest[k + 1].receiverId
                  /\ fields[5 + 3 * k] =
                       NumberToString(session.nearest[k + 1].rssi)
                  /\ fields[6 + 3 * k] =
                       NumberToString(session.nearest[k + 1].numberOfDecodings)
             ELSE /\ fields[4 + 3 * k] = ""
                  /\ fields[5 + 3 * k] = ""
                  /\ fields[6 + 3 * k] = ""

----------------------------------------------------------------------------
(* C21 *)

\* the value of a numeric option of the constructor, the default when the
\* option is left out
RequestedNumber(name, default) ==
  IF name \in DOMAIN options THEN options[name].v ELSE default

\* C21: the threshold comparison and the holdoff comparison of handleRaddec
\* use the rssiThreshold and the reinitiationHoldoffMilliseconds supplied in
\* the options, 0 included, and -50 and 10000 only when the option is left
\* out: a record is above the threshold exactly when its strongest rssi is
\* at least the supplied threshold, and an above-threshold record that
\* resolved to a session continues it exactly when the supplied holdoff plus
\* its journeyStartTime is later than now.
C21_SuppliedValuesAreUsed ==
  [][LET raddec == last'.raddec
         threshold == RequestedNumber("rssiThreshold", DEFAULT_RSSI_THRESHOLD)
         holdoff == RequestedNumber("reinitiationHoldoffMilliseconds",
                                    DEFAULT_REINITIATION_HOLDOFF_MILLISECONDS)
     IN Handled
        => /\ last'.isAboveThreshold
                <=> raddec.rssiSignature[1].rssi >= threshold
           /\ \A S \in DOMAIN activeSessions :
                ( last'.isAboveThreshold /\ last'.sessionId = S )
                => ( S \in DOMAIN activeSessions'
                       <=> holdoff + activeSessions[S].journeyStartTime
                             > now )]_vars

----------------------------------------------------------------------------
(* C22 *)

\* C22: all the emissions that carry one sessionId carry one instanceId:
\* every snapshot is emitted with the instanceId its sessionId was first
\* emitted with.
C22_OneInstanceIdPerSession ==
  \A i \in 1..Len(emitted) :
    emitted[i].sessionId \in DOMAIN emittedAs
      => emitted[i].instanceId = emittedAs[emitted[i].sessionId]

----------------------------------------------------------------------------
(* C23 *)

\* C23: every session in activeSessions is the value of at least one entry
\* of activeTransmitters.
C23_EverySessionIsReachable ==
  \A id \in DOMAIN activeSessions :
    \E sig \in DOMAIN activeTransmitters : activeTransmitters[sig] = id

----------------------------------------------------------------------------
(* C24 *)

\* C24: between two calls of handleRaddec, every signature that
\* activeTransmitters maps to a session present in activeSessions is a key of
\* the devices of that session.
C24_LinkedSignatureHasDevice ==
  \A sig \in DOMAIN activeTransmitters :
    activeTransmitters[sig] \in DOMAIN activeSessions
      => sig \in Keys(activeSessions[activeTransmitters[sig]].devices)

\* a below-threshold record with a whitelisted id has just been re-linked from
\* its signature's own session to the session of the id, which now holds it
C24_Witness ==
  /\ last.handled /\ ~last.isAboveThreshold /\ ~last.threw
  /\ last.isWhitelisted /\ last.isActiveTransmitter
  /\ last.sessionId \in DOMAIN activeSessions
  /\ activeTransmitters[last.raddec.signature] = last.sessionId
  /\ LET devices == activeSessions[last.sessionId].devices
     IN /\ Len(devices) = 2
        /\ devices[2] = <<last.raddec.signature, [raddec |-> last.raddec]>>
        /\ activeTransmitters[devices[1][1]] = last.sessionId
  /\ \E other \in DOMAIN activeSessions \ {last.sessionId} :
       last.raddec.signature \in Keys(activeSessions[other].devices)

====
